---- MODULE Spec2Model ----
(***************************************************************************)
(* Model of moonlight_launcher.py: a daemon whose main thread sets up      *)
(* logging, signal handlers, the CEC session and a pyudev MonitorObserver, *)
(* and whose observer thread calls handle_event(action, device) for every  *)
(* udev event of a device tagged 'controller'.                             *)
(*                                                                         *)
(* Two threads are modelled: the main thread (mainpc) and the observer     *)
(* thread (pc), which runs handle_event synchronously, one call per event. *)
(* The environment attaches and detaches controllers, lets the TV answer   *)
(* polls, lets the streaming client exit and delivers stop signals.        *)
(*                                                                         *)
(* Time inside the power-on loop is counted in ticks, TicksPerSec to the   *)
(* second; el is time.time() - start_time as the loop test reads it.       *)
(***************************************************************************)
EXTENDS Integers, Sequences, FiniteSets

\* ------------------------------------------------------------------ bounds
MaxDevices == 2      \* controllers that exist (the census only counts them)
MaxEvents == 4       \* udev events delivered to the monitor in one run
TicksPerSec == 1     \* clock resolution of the model
MaxCecDelay == 1     \* most ticks one loop iteration's CEC calls may take

\* ------------------------------------------------------- program constants
timeout == 10        \* seconds, line 81
SleepSecs == 1       \* seconds, line 85

ConfigKinds == {"ok", "no_mac", "no_log", "no_file"}
NoEvent == [id |-> 0, action |-> "none", dp |-> 0]

VARIABLES
    mainpc,     \* main thread: "read_log", "cec_init", "start_observer", "heartbeat", "exited"
    config,     \* what config.yml holds
    attached,   \* how many hidraw devices tagged 'controller' the udev context lists now
    queue,      \* events the monitor has received and the observer has not read yet
    arrived,    \* number of events the monitor has received
    inflight,   \* events handed to handle_event whose call has not returned
    pc,         \* observer thread: "off", "poll", or the place inside handle_event
    count,      \* count_controllers
    el,         \* time.time() - start_time, in ticks
    on,         \* the local 'on' of turn_on_tv_and_switch_source
    fx,         \* side effects of the call in flight, in order
    log,        \* one entry per returned call: the event, the count it saw, its effects
    client      \* TRUE while a launched moonlight process is running

vars == <<mainpc, config, attached, queue, arrived, inflight, pc, count, el, on, fx, log, client>>

\* ----------------------------------------------------------------- helpers
Range(s) == {s[i] : i \in 1..Len(s)}
Count(s, x) == Cardinality({i \in 1..Len(s) : s[i] = x})

\* what a log entry keeps of a call: the side effects issued and the failures
Effects == {"wake", "on", "src", "launch", "standby"}
Failures == {"wake_fail", "poll_err", "launch_fail"}

\* the event handle_event is running for
cur == IF inflight = {} THEN NoEvent ELSE CHOOSE e \in inflight : TRUE

running == mainpc # "exited"

\* places of the observer thread inside turn_on_tv_and_switch_source
PowerOnPcs == {"loop", "sleep", "switch", "settle"}

\* ------------------------------------------------------------- main thread
Init ==
    /\ mainpc = "read_log"
    /\ config \in ConfigKinds
    /\ attached \in 0..MaxDevices
    /\ queue = <<>>
    /\ arrived = 0
    /\ inflight = {}
    /\ pc = "off"
    /\ count = 0
    /\ el = 0
    /\ on = FALSE
    /\ fx = <<>>
    /\ log = <<>>
    /\ client = FALSE

\* lines 184-186: an exception here is outside the try and ends the process
ReadLogPath ==
    /\ mainpc = "read_log"
    /\ mainpc' = IF config \in {"no_file", "no_log"} THEN "exited" ELSE "cec_init"
    /\ UNCHANGED <<config, attached, queue, arrived, inflight, pc, count, el, on, fx, log, client>>

\* line 194: cec.init() either succeeds or raises into the except of line 219,
\* after which the main thread runs off the end of the script
CecInit ==
    /\ mainpc = "cec_init"
    /\ \E ok \in BOOLEAN : mainpc' = IF ok THEN "start_observer" ELSE "exited"
    /\ UNCHANGED <<config, attached, queue, arrived, inflight, pc, count, el, on, fx, log, client>>

\* lines 199-210
StartObserver ==
    /\ mainpc = "start_observer"
    /\ mainpc' = "heartbeat"
    /\ pc' = "poll"
    /\ UNCHANGED <<config, attached, queue, arrived, inflight, count, el, on, fx, log, client>>

\* mutant of HandleStopSignals: the TV is put on standby on the way out
HandleStopSignalsStandby ==
    /\ mainpc \in {"read_log", "cec_init", "start_observer", "heartbeat"}
    /\ mainpc' = "exited"
    /\ pc' = "off"
    /\ queue' = <<>>
    /\ inflight' = {}
    /\ count' = 0
    /\ el' = 0
    /\ on' = FALSE
    /\ fx' = <<"standby">>
    /\ UNCHANGED <<config, attached, arrived, log, client>>

\* mutant of HandleStopSignals: the exit waits until no call is in flight
HandleStopSignalsWhenIdle ==
    /\ mainpc \in {"read_log", "cec_init", "start_observer", "heartbeat"}
    /\ pc \in {"off", "poll"}
    /\ mainpc' = "exited"
    /\ pc' = "off"
    /\ queue' = <<>>
    /\ inflight' = {}
    /\ count' = 0
    /\ el' = 0
    /\ on' = FALSE
    /\ fx' = <<>>
    /\ UNCHANGED <<config, attached, arrived, log, client>>

\* lines 169-178: exit() in the main thread ends the process. The observer is a
\* daemon thread and dies with it wherever it is; what the process held in
\* memory (the unread events, the call in flight) is gone. A launched client
\* is a separate process and keeps running. Before line 189 has installed the
\* handler, SIGINT and SIGTERM end the process by their default action.
HandleStopSignals ==
    /\ mainpc \in {"read_log", "cec_init", "start_observer", "heartbeat"}
    /\ mainpc' = "exited"
    /\ pc' = "off"
    /\ queue' = <<>>
    /\ inflight' = {}
    /\ count' = 0
    /\ el' = 0
    /\ on' = FALSE
    /\ fx' = <<>>
    /\ UNCHANGED <<config, attached, arrived, log, client>>

\* ------------------------------------------------------------- environment
\* the activation whose power-on sequence is running, 0 if none
PowerOnOf == IF pc \in PowerOnPcs THEN cur.id ELSE 0

\* an event, with when it arrived: dp is the activation whose power-on sequence
\* was running
Event(a) == [id |-> arrived + 1, action |-> a, dp |-> PowerOnOf]

\* a controller connects: the kernel announces 'add' to the monitor (lines
\* 200-202). What connects or disconnects before the observer runs produces no
\* event: Init covers it by letting the daemon start with any number attached.
Attach ==
    /\ running /\ pc # "off"
    /\ arrived < MaxEvents
    /\ attached < MaxDevices
    /\ attached' = attached + 1
    /\ queue' = Append(queue, Event("add"))
    /\ arrived' = arrived + 1
    /\ UNCHANGED <<mainpc, config, inflight, pc, count, el, on, fx, log, client>>

\* a controller disconnects: the kernel announces 'remove'
Detach ==
    /\ running /\ pc # "off"
    /\ arrived < MaxEvents
    /\ attached > 0
    /\ attached' = attached - 1
    /\ queue' = Append(queue, Event("remove"))
    /\ arrived' = arrived + 1
    /\ UNCHANGED <<mainpc, config, inflight, pc, count, el, on, fx, log, client>>

\* the user quits the streaming client: subprocess.run returns (line 106-107)
ClientExit ==
    /\ running
    /\ pc = "wait_client"
    /\ client
    /\ client' = FALSE
    /\ pc' = "return"
    /\ UNCHANGED <<mainpc, config, attached, queue, arrived, inflight, count, el, on, fx, log>>

\* --------------------------------------------------------- observer thread
\* mutant of Dispatch: the handler is called for an event as soon as it is
\* there, whether or not the previous call has returned
DispatchOverlapping ==
    /\ running
    /\ pc # "off"
    /\ queue # <<>>
    /\ inflight' = inflight \cup {Head(queue)}
    /\ queue' = Tail(queue)
    /\ pc' = "census"
    /\ fx' = <<>>
    /\ UNCHANGED <<mainpc, config, attached, arrived, count, el, on, log, client>>

\* MonitorObserver.run: read the next event and call the handler with it; the
\* observer thread calls the handler itself, so it reads the next event only
\* after the call has returned
Dispatch ==
    /\ running
    /\ pc = "poll"
    /\ queue # <<>>
    /\ inflight' = inflight \cup {Head(queue)}
    /\ queue' = Tail(queue)
    /\ pc' = "census"
    /\ fx' = <<>>
    /\ UNCHANGED <<mainpc, config, attached, arrived, count, el, on, log, client>>

\* mutant of Branch: the handler remembers that it has launched the client and
\* activates only once
BranchOnce(action, n) ==
    IF action = "add" /\ n = 1 /\ (\A i \in 1..Len(log) : "launch" \notin log[i].eff)
    THEN "first_added"
    ELSE IF action = "remove" /\ n = 0 THEN "last_removed"
    ELSE "none"

\* mutant of Branch: 'add' activates whenever a controller is present
BranchAnyAdd(action, n) ==
    IF action = "add" /\ n >= 1 THEN "first_added"
    ELSE IF action = "remove" /\ n = 0 THEN "last_removed"
    ELSE "none"

\* mutant of Branch: 'remove' turns the TV off while a controller is left
BranchAnyRemove(action, n) ==
    IF action = "add" /\ n = 1 THEN "first_added"
    ELSE IF action = "remove" /\ n <= 1 THEN "last_removed"
    ELSE "none"

\* lines 150 and 159: which branch handle_event takes
Branch(action, n) ==
    IF action = "add" /\ n = 1 THEN "first_added"
    ELSE IF action = "remove" /\ n = 0 THEN "last_removed"
    ELSE "none"

\* mutant of Census: the count is kept from the events handled so far instead
\* of being enumerated
CensusFromHistory ==
    /\ running
    /\ pc = "census"
    /\ count' = Cardinality({i \in 1..Len(log) : log[i].action = "add"})
               - Cardinality({i \in 1..Len(log) : log[i].action = "remove"})
               + (IF cur.action = "add" THEN 1 ELSE -1)
    /\ pc' = CASE Branch(cur.action, count') = "first_added" -> "wake"
               [] Branch(cur.action, count') = "last_removed" -> "standby"
               [] OTHER -> "return"
    /\ UNCHANGED <<mainpc, config, attached, queue, arrived, inflight, el, on, fx, log, client>>

\* lines 144-163: enumerate the attached controllers and choose the branch
Census ==
    /\ running
    /\ pc = "census"
    /\ count' = attached
    /\ pc' = CASE Branch(cur.action, count') = "first_added" -> "wake"
               [] Branch(cur.action, count') = "last_removed" -> "standby"
               [] OTHER -> "return"
    /\ UNCHANGED <<mainpc, config, attached, queue, arrived, inflight, el, on, fx, log, client>>

\* lines 153-155: read the MAC address and send the magic packet; without a MAC
\* address, or when the send fails, the exception goes to line 165
SendMagicPacket ==
    /\ running
    /\ pc = "wake"
    /\ \E sent \in (IF config = "ok" THEN BOOLEAN ELSE {FALSE}) :
         IF sent
         THEN /\ fx' = Append(fx, "wake")
              /\ pc' = "loop"
         ELSE /\ fx' = Append(fx, "wake_fail")
              /\ pc' = "return"
    /\ el' = 0
    /\ on' = FALSE
    /\ UNCHANGED <<mainpc, config, attached, queue, arrived, inflight, count, log, client>>

\* mutant of LoopContinues: the deadline itself still counts as in time
LoopContinuesInclusive(isOn, elapsed) == ~isOn /\ elapsed <= timeout * TicksPerSec

\* mutant of LoopContinues: the loop runs to the deadline whatever the TV reports
LoopContinuesIgnoringOn(isOn, elapsed) == elapsed < timeout * TicksPerSec

\* line 83: the loop test
LoopContinues(isOn, elapsed) == ~isOn /\ elapsed < timeout * TicksPerSec

\* lines 83-84: test the loop condition; when it holds, send 'on'
LoopTest ==
    /\ running
    /\ pc = "loop"
    /\ IF LoopContinues(on, el)
       THEN /\ fx' = Append(fx, "on")
            /\ pc' = "sleep"
       ELSE /\ pc' = "switch"
            /\ fx' = fx
    /\ UNCHANGED <<mainpc, config, attached, queue, arrived, inflight, count, el, on, log, client>>

\* lines 85-87: sleep one second, then poll the TV: it reports on or off, or the
\* query raises. The clock advances by the sleep and by what this iteration's
\* CEC calls take
SleepAndPoll ==
    /\ running
    /\ pc = "sleep"
    /\ \E d \in 0..MaxCecDelay : el' = el + SleepSecs * TicksPerSec + d
    /\ \E r \in {"poll_on", "poll_off", "poll_err"} :
         /\ fx' = Append(fx, r)
         /\ on' = (r = "poll_on")
         /\ pc' = IF r = "poll_err" THEN "return" ELSE "loop"
    /\ UNCHANGED <<mainpc, config, attached, queue, arrived, inflight, count, log, client>>

\* mutant of SwitchSource: the source is switched whether or not the TV is on
SwitchSourceAlways ==
    /\ running
    /\ pc = "switch"
    /\ fx' = Append(fx, "src")
    /\ pc' = "settle"
    /\ UNCHANGED <<mainpc, config, attached, queue, arrived, inflight, count, el, on, log, client>>

\* lines 89-94
SwitchSource ==
    /\ running
    /\ pc = "switch"
    /\ fx' = IF on THEN Append(fx, "src") ELSE fx
    /\ pc' = "settle"
    /\ UNCHANGED <<mainpc, config, attached, queue, arrived, inflight, count, el, on, log, client>>

\* mutant of Settle: a power-on that timed out ends the activation
SettleWhenOn ==
    /\ running
    /\ pc = "settle"
    /\ fx' = Append(fx, "settle")
    /\ pc' = IF on THEN "launch" ELSE "return"
    /\ UNCHANGED <<mainpc, config, attached, queue, arrived, inflight, count, el, on, log, client>>

\* line 97
Settle ==
    /\ running
    /\ pc = "settle"
    /\ fx' = Append(fx, "settle")
    /\ pc' = "launch"
    /\ UNCHANGED <<mainpc, config, attached, queue, arrived, inflight, count, el, on, log, client>>

\* lines 100-109: subprocess.run starts moonlight and waits for it, or raises
\* (caught at line 108)
LaunchMoonlight ==
    /\ running
    /\ pc = "launch"
    /\ \E started \in BOOLEAN :
         IF started
         THEN /\ fx' = Append(fx, "launch")
              /\ client' = TRUE
              /\ pc' = "wait_client"
         ELSE /\ fx' = Append(fx, "launch_fail")
              /\ client' = client
              /\ pc' = "return"
    /\ UNCHANGED <<mainpc, config, attached, queue, arrived, inflight, count, el, on, log>>

\* lines 112-119 and 162
TurnOffTv ==
    /\ running
    /\ pc = "standby"
    /\ fx' = Append(fx, "standby")
    /\ pc' = "return"
    /\ UNCHANGED <<mainpc, config, attached, queue, arrived, inflight, count, el, on, log, client>>

\* mutant of Return: an exception raised in the handler is not caught and ends
\* the observer thread
ReturnUncaught ==
    /\ running
    /\ pc = "return"
    /\ log' = Append(log, [id |-> cur.id, action |-> cur.action, count |-> count,
                           eff |-> Range(fx) \cap (Effects \cup Failures)])
    /\ inflight' = inflight \ {cur}
    /\ pc' = IF Range(fx) \cap Failures # {} THEN "off" ELSE "poll"
    /\ fx' = <<>>
    /\ count' = 0
    /\ el' = 0
    /\ on' = FALSE
    /\ UNCHANGED <<mainpc, config, attached, queue, arrived, client>>

\* handle_event returns (normally, or through the except of line 165)
Return ==
    /\ running
    /\ pc = "return"
    /\ log' = Append(log, [id |-> cur.id, action |-> cur.action, count |-> count,
                           eff |-> Range(fx) \cap (Effects \cup Failures)])
    /\ inflight' = inflight \ {cur}
    /\ pc' = "poll"
    /\ fx' = <<>>
    /\ count' = 0
    /\ el' = 0
    /\ on' = FALSE
    /\ UNCHANGED <<mainpc, config, attached, queue, arrived, client>>

Next ==
    \/ ReadLogPath
    \/ CecInit
    \/ StartObserver
    \/ HandleStopSignals
    \/ Attach
    \/ Detach
    \/ ClientExit
    \/ Dispatch
    \/ Census
    \/ SendMagicPacket
    \/ LoopTest
    \/ SleepAndPoll
    \/ SwitchSource
    \/ Settle
    \/ LaunchMoonlight
    \/ TurnOffTv
    \/ Return

Spec == Init /\ [][Next]_vars

\* ================================================================== claims

\* the events [Attach, Attach, Detach, Detach], each handled with the count that
\* followed it: 1, 2, 1, 0
AADD == << [action |-> "add", count |-> 1], [action |-> "add", count |-> 2],
           [action |-> "remove", count |-> 1], [action |-> "remove", count |-> 0] >>

HandledAADD ==
    /\ Len(log) >= 4
    /\ \A i \in 1..4 : log[i].action = AADD[i].action /\ log[i].count = AADD[i].count

C2_OneAtATimeInOrder ==
    /\ \A i \in 1..Len(log) : log[i].id = i
    /\ running =>
        /\ Cardinality(inflight) <= 1
        /\ \A e \in inflight : e.id = Len(log) + 1
        /\ \A i \in 1..Len(queue) : queue[i].id = Len(log) + Cardinality(inflight) + i
        /\ arrived = Len(log) + Cardinality(inflight) + Len(queue)
        /\ (inflight = {}) = (pc \in {"off", "poll"})

C2_Witness ==
    /\ running
    /\ Len(log) >= 1
    /\ pc = "sleep"
    /\ Len(queue) >= 2

\* C3: the client launch is fire-and-forget: when a Detach brings the count to 0
\* while the launched client is running, the call that launched the client has
\* returned, so the Detach is handled without the client having to exit.
C3_LaunchDoesNotWait ==
    [][(client /\ attached = 1 /\ attached' = 0) => pc # "wait_client"]_vars

\* C4: an Attach event that arrived while the power-on sequence of an activation
\* was in flight is handled only after the call running that sequence has
\* returned, and its handling does not launch a second client after the one
\* that activation launched.
C4_AttachDuringPowerOn ==
    \A e \in inflight :
        (e.action = "add" /\ e.dp # 0) =>
            /\ Len(log) >= e.dp
            /\ ~("launch" \in log[e.dp].eff /\ "launch" \in Range(fx))

\* client launches and standby commands issued so far, the call in flight included
Launches ==
    Cardinality({i \in 1..Len(log) : "launch" \in log[i].eff})
        + (IF "launch" \in Range(fx) THEN 1 ELSE 0)

Standbys ==
    Cardinality({i \in 1..Len(log) : "standby" \in log[i].eff})
        + (IF "standby" \in Range(fx) THEN 1 ELSE 0)

\* C5: activation happens only from Idle: the client launches performed exceed
\* the standby commands performed by at most 1.
C5_ActivationOnlyFromIdle == Launches - Standbys <= 1

\* the session is Active after the returned calls: one of them ran the activation
\* branch and none after it issued standby
SessionActive ==
    \E i \in 1..Len(log) :
        /\ log[i].eff \cap {"wake", "wake_fail"} # {}
        /\ \A j \in (i+1)..Len(log) : "standby" \notin log[j].eff

\* C6 as claimed: standby is issued only while the session is Active.
C6_StandbyOnlyWhenActive == "standby" \in Range(fx) => SessionActive

\* C6: standby is issued exactly when a Detach event is handled with recomputed
\* count 0, whether or not an activation went before: every call that issued
\* standby was for a Detach that saw count 0, and every returned call for a
\* Detach that saw count 0 issued it.
C6_StandbyOnLastDetach ==
    /\ "standby" \in Range(fx) => (cur.action = "remove" /\ count = 0)
    /\ \A i \in 1..Len(log) :
        ("standby" \in log[i].eff) = (log[i].action = "remove" /\ log[i].count = 0)

\* the first event handled is a Detach with count 0 (the daemon started with a
\* controller attached): standby is issued with no activation before it
C6_Witness == Len(log) >= 1 /\ log[1].eff = {"standby"} /\ log[1].count = 0

LoopEffects == {"on", "poll_on", "poll_off", "poll_err"}

\* C7: within one call the side effects come in this order: the wake packet
\* first and once, then the power-on loop ('on' command, then poll, per
\* iteration), then set-active-source only right after a poll that reported on,
\* then the settle delay, then the client launch as the last step. No CEC
\* command comes before the wake packet, nothing of the power-on sequence comes
\* after set-active-source or the settle delay (so each happens once), and no
\* launch comes before the loop and the settle delay are over.
C7_ActivationOrder ==
    \A i \in 1..Len(fx) :
        LET x == fx[i]
            p == IF i = 1 THEN "none" ELSE fx[i-1]
            rest == {fx[j] : j \in (i+1)..Len(fx)}
        IN  CASE x \in {"wake", "wake_fail"} -> i = 1
              [] x = "on" -> p \in {"wake", "poll_off"}
              [] x \in {"poll_on", "poll_off", "poll_err"} -> p = "on"
              [] x = "src" -> p = "poll_on" /\ rest \subseteq {"settle", "launch", "launch_fail"}
              [] x = "settle" -> p \in {"src", "poll_off"} /\ rest \subseteq {"launch", "launch_fail"}
              [] x \in {"launch", "launch_fail"} -> p = "settle" /\ i = Len(fx)
              [] x = "standby" -> Len(fx) = 1

C7_Witness ==
    /\ pc = "wait_client"
    /\ fx = <<"wake", "on", "poll_off", "on", "poll_on", "src", "settle", "launch">>

\* C8: when the wake packet cannot be sent although the MAC address was read,
\* the call still goes on to the power-on step: it does not end without an 'on'
\* command.
C8_WakeFailureNonFatal ==
    (config = "ok" /\ pc = "return" /\ "wake_fail" \in Range(fx)) => "on" \in Range(fx)

\* the power-on loop has ended with the TV never having reported on
TimedOut == pc = "switch" /\ ~on

\* C9 as claimed: a loop that times out has sent exactly 10 'on' commands and
\* made exactly 10 polls.
C9_ExactlyTenAttempts ==
    TimedOut => (Count(fx, "on") = timeout /\ Count(fx, "poll_off") = timeout)

\* C9: a loop that times out has sent between 1 and 10 'on' commands, each
\* followed by a 1-second sleep and one poll; it gives up at the first loop test
\* made 10 seconds or more after the start, which lies less than one iteration
\* past the deadline; it has sent exactly 10 when the CEC calls took no time, and
\* fewer than 10 when the time they took before the last iteration adds up to a
\* second or more. While the loop runs, an 11th command is never sent.
C9_TimeoutByClock ==
    /\ pc \in {"loop", "sleep"} => Count(fx, "on") <= timeout
    /\ TimedOut =>
        LET n == Count(fx, "on") IN
        /\ n >= 1
        /\ Count(fx, "poll_off") = n
        /\ el >= timeout * TicksPerSec
        /\ el < timeout * TicksPerSec + SleepSecs * TicksPerSec + MaxCecDelay
        /\ el >= n * SleepSecs * TicksPerSec
        /\ (el = n * SleepSecs * TicksPerSec => n = timeout)
        /\ (el - n * SleepSecs * TicksPerSec >= TicksPerSec + MaxCecDelay => n < timeout)

C9_Witness == TimedOut /\ Count(fx, "on") = timeout /\ el = timeout * TicksPerSec

\* C10: when the TV first reports on at the k-th poll, the loop stops there:
\* exactly k 'on' commands have been sent and k polls made (k <= 10), no command
\* or poll follows, the loop variable is on, and the next step taken is
\* set-active-source.
C10_StopsAtFirstOn ==
    \A i \in 1..Len(fx) :
        fx[i] = "poll_on" =>
            LET k == Count(SubSeq(fx, 1, i), "on") IN
            /\ k \in 1..timeout
            /\ Count(SubSeq(fx, 1, i), "poll_off") = k - 1
            /\ Count(SubSeq(fx, 1, i), "poll_on") = 1
            /\ \A j \in (i+1)..Len(fx) : fx[j] \notin LoopEffects
            /\ on
            /\ pc \in {"loop", "switch", "settle", "launch", "wait_client", "return"}
            /\ (i < Len(fx) => fx[i+1] = "src")
            /\ (pc \in {"settle", "launch", "wait_client"} => i < Len(fx))

\* the TV first reports on at the 3rd poll
C10_Witness ==
    /\ pc = "settle"
    /\ fx = <<"wake", "on", "poll_off", "on", "poll_off", "on", "poll_on", "src">>

\* a step of the call in flight in which something raises
Raises == Range(fx') \cap Failures # {} /\ Range(fx) \cap Failures = {}

\* C11: an error raised while handling an event stays inside that call: the step
\* that raises leaves the main thread and the unread events alone and takes the
\* handler to its return, the return takes the observer back to reading events,
\* and while the main thread is in its heartbeat loop the observer is alive.
C11_ErrorsContained ==
    /\ [][Raises => (mainpc' = mainpc /\ queue' = queue /\ pc' = "return")]_vars
    /\ [][(pc = "return" /\ pc' # "return" /\ running') =>
            (pc' = "poll" /\ mainpc' = mainpc /\ queue' = queue)]_vars
    /\ [](mainpc = "heartbeat" => pc # "off")

\* the first call failed, the second issued its side effects, the daemon runs
C11_Witness ==
    /\ mainpc = "heartbeat"
    /\ Len(log) >= 2
    /\ log[1].eff \cap Failures # {}
    /\ log[2].eff \cap Effects # {}

\* C12: a stop signal that arrives while the session is Idle and no event is
\* unread or being handled ends the process with no side effect: the step issues
\* nothing, and once the process has exited nothing is issued any more.
C12_IdleShutdownSilent ==
    /\ [][(running /\ ~running' /\ ~SessionActive /\ queue = <<>> /\ inflight = {}) =>
            (fx' = <<>> /\ log' = log /\ client' = client)]_vars
    /\ [][~running => (fx' = <<>> /\ log' = log /\ client' = client)]_vars

\* the process has exited after an activation and a standby, with every event
\* that arrived handled: nothing was unread or in flight at the signal
C12_Witness ==
    /\ mainpc = "exited"
    /\ Len(log) >= 2
    /\ arrived = Len(log)
    /\ ~SessionActive
    /\ "launch" \in log[1].eff

\* C13: on a stop signal a transition in flight is completed, or cancelled at
\* the checkpoint of the power-on loop, before the process exits: a call that
\* has begun to issue side effects is cut by the exit only at the loop test or
\* after its last side effect.
C13_ShutdownAtCheckpoint ==
    [][(running /\ ~running' /\ fx # <<>>) =>
            pc \in {"loop", "wait_client", "return"}]_vars

\* the census step of the call in flight
CensusStep == pc = "census" /\ pc' # "census" /\ running'

\* C14: the count a call works with is a snapshot: the census sets it to the
\* number of matching devices attached at that moment, whatever was handled
\* before, and no call ever worked with a negative count.
C14_CountIsSnapshot ==
    /\ [][CensusStep => (count' = attached /\ count' >= 0)]_vars
    /\ [](\A i \in 1..Len(log) : log[i].count \in 0..MaxDevices)

\* an Attach was handled after the device had gone again: its count is 0, which
\* no count kept from the events would give
C14_Witness ==
    /\ pc = "return"
    /\ cur.action = "add"
    /\ count = 0
    /\ attached = 0

\* C15: set-active-source is issued only after the power-on loop ended with the
\* TV reporting on: a call that issued it holds on = TRUE from a poll that
\* answered on, and a call past the loop with on = FALSE has not issued it.
C15_SourceOnlyWhenOn ==
    /\ "src" \in Range(fx) => (on /\ "poll_on" \in Range(fx))
    /\ (pc \in {"settle", "launch", "wait_client"} /\ ~on) => "src" \notin Range(fx)

\* the loop timed out and the call is past the switch without set-active-source
C15_Witness ==
    /\ pc = "launch"
    /\ ~on
    /\ el >= timeout * TicksPerSec
    /\ "src" \notin Range(fx)

\* a call past the power-on loop whose loop ended with the TV not on
PastLoopNotOn ==
    /\ pc \in {"wait_client", "return"}
    /\ ~on
    /\ "on" \in Range(fx)
    /\ "poll_err" \notin Range(fx)

\* C16: a power-on that timed out does not end the activation: the call skips
\* set-active-source and still goes on to launch the client.
C16_TimeoutNonFatal ==
    PastLoopNotOn =>
        /\ "src" \notin Range(fx)
        /\ Range(fx) \cap {"launch", "launch_fail"} # {}

\* the TV never reported on and the client is running
C16_Witness ==
    /\ pc = "wait_client"
    /\ ~on
    /\ el >= timeout * TicksPerSec
    /\ client
    /\ "launch" \in Range(fx)

\* (action, count) is neither (add, 1) nor (remove, 0)
NoTransition(action, n) ==
    ~(action = "add" /\ n = 1) /\ ~(action = "remove" /\ n = 0)

\* C17: a call whose (action, count) is neither (add, 1) nor (remove, 0) issues
\* nothing: it goes from the census to its return with no side effect, and its
\* log entry is empty, so the session it leaves is the session it found.
C17_OtherEventsNoEffect ==
    /\ \A i \in 1..Len(log) :
           NoTransition(log[i].action, log[i].count) => log[i].eff = {}
    /\ (pc \notin {"off", "poll", "census"} /\ NoTransition(cur.action, count)) =>
           (pc = "return" /\ fx = <<>>)

\* an Attach with count 0, an Attach with count 2 and a Detach with a count
\* above 0 have all been handled
C17_Witness ==
    /\ \E i \in 1..Len(log) : log[i].action = "add" /\ log[i].count = 0
    /\ \E i \in 1..Len(log) : log[i].action = "add" /\ log[i].count >= 2
    /\ \E i \in 1..Len(log) : log[i].action = "remove" /\ log[i].count >= 1

\* C18: the observer is never started without a valid log path and a valid
\* MAC address in the configuration.
C18_ListensOnlyWithValidConfig == pc # "off" => config = "ok"

\* lines 150-163, 77-97, 100-109: the side effects of one call as a function of
\* its action, its count and the outcomes of its external calls
ExpectedEffects(action, n, failed, tvOn) ==
    IF action = "add" /\ n = 1
    THEN IF "wake_fail" \in failed THEN {}
         ELSE {"wake", "on"}
              \cup (IF "poll_err" \in failed THEN {}
                    ELSE (IF tvOn THEN {"src"} ELSE {})
                         \cup (IF "launch_fail" \in failed THEN {} ELSE {"launch"}))
    ELSE IF action = "remove" /\ n = 0 THEN {"standby"}
    ELSE {}

\* C19: what a call does is decided by its event alone: the side effects of a
\* call are a fixed function of its action, its count and the outcomes of its
\* external calls, so two calls that agree on these issue the same side effects
\* whatever was handled before them, and a call starts with nothing left over
\* from the call before it.
C19_HandlerStateless ==
    /\ pc = "return" =>
           Range(fx) \cap Effects =
               ExpectedEffects(cur.action, count, Range(fx) \cap Failures, on)
    /\ \A i \in 1..Len(log) :
           log[i].eff \cap Effects =
               ExpectedEffects(log[i].action, log[i].count,
                               log[i].eff \cap Failures, "src" \in log[i].eff)
    /\ \A i, j \in 1..Len(log) :
           ( /\ log[i].action = log[j].action
             /\ log[i].count = log[j].count
             /\ log[i].eff \cap Failures = log[j].eff \cap Failures
             /\ ("src" \in log[i].eff) = ("src" \in log[j].eff) )
           => log[i].eff = log[j].eff
    /\ pc = "census" => (fx = <<>> /\ count = 0 /\ el = 0 /\ ~on)

\* two Attach events were handled with count 1, the first with no activation
\* before it and the second after one, and both launched the client
C19_Witness ==
    /\ Len(log) >= 2
    /\ log[1].action = "add" /\ log[1].count = 1 /\ "launch" \in log[1].eff
    /\ log[2].action = "add" /\ log[2].count = 1 /\ "launch" \in log[2].eff

\* C20: shutdown is always possible: in every state of the running process,
\* whatever the handler is doing, a stop signal can be handled and its handling
\* ends the process, and once the process has exited nothing can happen.
C20_ShutdownAlwaysPossible ==
    /\ running => ENABLED (HandleStopSignals /\ mainpc' = "exited")
    /\ ~running => ~ENABLED Next

\* the process has exited while the handler was blocked on the client
C20_Witness ==
    /\ mainpc = "exited"
    /\ client
    /\ arrived > Len(log)

TypeOK ==
    /\ mainpc \in {"read_log", "cec_init", "start_observer", "heartbeat", "exited"}
    /\ attached \in 0..MaxDevices
    /\ arrived \in 0..MaxEvents
    /\ Cardinality(inflight) <= 1
    /\ on \in BOOLEAN
    /\ client \in BOOLEAN
====
